---- MODULE Spec2Model ----
(***************************************************************************)
(* The per-tab session state store of the dashboard:                       *)
(* utils/state_manager.py, class StateManager.                             *)
(*                                                                         *)
(* st.session_state["tabs_state"] is a dict of dicts (tab name -> key ->   *)
(* value).  Handles (StateManager instances) hold only their tab_name and  *)
(* look the shared dict up on every call.  save_all / load_all move the    *)
(* whole dict to and from one JSON file.                                   *)
(***************************************************************************)
EXTENDS Naturals, Sequences, FiniteSets, TLC

VARIABLES session_state, handles, file, last, stored_values

vars == <<session_state, handles, file, last, stored_values>>

(***************************************************************************)
(* Bounds of the model.                                                    *)
(***************************************************************************)
\* Most entries the live store holds, over all tabs together.
MaxEntries == 2
\* Longest list of (distinct) keys handed to reset / copy_from_tab.
MaxKeysLen == 2

Tabs == {"data_explorer", "visual_plots"}
Keys == {"selected_city", "metric"}

(***************************************************************************)
(* Python values.  A value is a record tagged with its Python type; the    *)
(* payload field is named after the type so that values of different       *)
(* types are records of different shapes.                                  *)
(***************************************************************************)
PyNone == [type |-> "NoneType"]
PyStr(s) == [type |-> "str", str |-> s]
PyInt(n) == [type |-> "int", int |-> n]
\* An instance of a class json knows nothing about (a DataFrame, a set).
PyObject == [type |-> "object"]
PyList(es) == [type |-> "list", elems |-> es]
PyDict(m) == [type |-> "dict", map |-> m]

\* The empty dict {} at the two outer levels of tabs_state.
EmptyDict == [k \in {} |-> PyNone]

\* The values the callers of one run store: either a plain string and
\* objects json cannot write (alone, or inside a list), or a dict keyed by an
\* integer.
ValueUniverses ==
    { { PyStr("Barcelona"), PyObject, PyList(<<PyObject>>) },
      { PyDict([k \in {PyInt(1)} |-> PyStr("A")]) } }

\* The values init's defaults are drawn from.
DefaultValues ==
    { PyStr("Barcelona"), PyObject, PyDict([k \in {PyInt(1)} |-> PyStr("A")]) }

\* The defaults callers hand to get / get_from_tab.
Defaults == {PyStr("N/A")}

\* The keys argument of reset / copy_from_tab: None or a list of keys.
KeyLists ==
    {l \in UNION {[1..n -> Keys] : n \in 0..MaxKeysLen} :
        \A i, j \in DOMAIN l : l[i] = l[j] => i = j}
KeysArgs == {PyNone} \cup {PyList(l) : l \in KeyLists}

\* Python truthiness of such an argument (`if keys:`).
Truthy(v) ==
    CASE v.type = "NoneType" -> FALSE
      [] v.type = "list" -> Len(v.elems) > 0
      [] OTHER -> TRUE

(***************************************************************************)
(* The outcome of a call: what it returned and what it raised.             *)
(***************************************************************************)
NoError == "none"

\* op: the method; tab_name: the tab_name argument of __init__ and of
\* get_from_tab, self.tab_name for get_all ("" for the other methods);
\* ret: the value returned; err: the exception raised.
Call(op, tab_name, ret, err) ==
    [op |-> op, tab_name |-> tab_name, ret |-> ret, err |-> err]

\* The dict st.session_state["tabs_state"].
tabs_state == session_state["tabs_state"]

\* Number of entries of a dict of dicts (what MaxEntries bounds).
RECURSIVE CountEntries(_, _)
CountEntries(ts, tabs) ==
    IF tabs = {} THEN 0
    ELSE LET t == CHOOSE x \in tabs : TRUE
         IN Cardinality(DOMAIN ts[t]) + CountEntries(ts, tabs \ {t})
Size(ts) == CountEntries(ts, DOMAIN ts)

(***************************************************************************)
(* Python dict operations used by the class.                               *)
(***************************************************************************)
\* d[k] = v
DictSet(d, k, v) == [x \in DOMAIN d \cup {k} |-> IF x = k THEN v ELSE d[x]]

\* d.pop(k, None) for every k of a set
DictPopAll(d, ks) == [x \in DOMAIN d \ ks |-> d[x]]

\* d.get(k, default)
DictGet(d, k, default) == IF k \in DOMAIN d THEN d[k] ELSE default

\* d.update(other)
DictUpdate(d, other) ==
    [x \in DOMAIN d \cup DOMAIN other |-> IF x \in DOMAIN other THEN other[x] ELSE d[x]]

\* dict(d) as a Python value: the mapping get_all returns.
AsPyDict(d) == PyDict([k \in {PyStr(x) : x \in DOMAIN d} |-> d[k.str]])

\* The elements of a list of keys.
Elems(keys) == {keys.elems[i] : i \in DOMAIN keys.elems}

(***************************************************************************)
(* json.dump and json.load.  A JSON text is modelled by the term it        *)
(* parses to; object member names are strings.                             *)
(***************************************************************************)
JString(s) == [json |-> "string", str |-> s]
JNumber(n) == [json |-> "number", int |-> n]
JNull == [json |-> "null"]
JArray(es) == [json |-> "array", elems |-> es]
JObject(m) == [json |-> "object", members |-> m]

\* str(n) for the small integers used as dict keys.
IntStr(n) ==
    CASE n = 0 -> "0" [] n = 1 -> "1" [] n = 2 -> "2" [] n = 3 -> "3"
      [] OTHER -> "9"

\* The member name json writes for a dict key (skipkeys=False): str keys as
\* they are, int keys as their decimal text.
KeyName(k) == IF k.type = "str" THEN k.str ELSE IntStr(k.int)

\* Whether the default JSONEncoder accepts the value; otherwise it raises
\* TypeError("Object of type ... is not JSON serializable").
RECURSIVE JsonSerializable(_)
JsonSerializable(v) ==
    CASE v.type \in {"str", "int", "NoneType"} -> TRUE
      [] v.type = "list" -> \A i \in DOMAIN v.elems : JsonSerializable(v.elems[i])
      [] v.type = "dict" ->
            \A k \in DOMAIN v.map :
                k.type \in {"str", "int"} /\ JsonSerializable(v.map[k])
      [] OTHER -> FALSE

RECURSIVE JsonEncode(_)
JsonEncode(v) ==
    CASE v.type = "str" -> JString(v.str)
      [] v.type = "int" -> JNumber(v.int)
      [] v.type = "NoneType" -> JNull
      [] v.type = "list" -> JArray([i \in DOMAIN v.elems |-> JsonEncode(v.elems[i])])
      [] v.type = "dict" ->
            JObject([n \in {KeyName(k) : k \in DOMAIN v.map} |->
                        JsonEncode(v.map[CHOOSE k \in DOMAIN v.map : KeyName(k) = n])])

RECURSIVE JsonDecode(_)
JsonDecode(j) ==
    CASE j.json = "string" -> PyStr(j.str)
      [] j.json = "number" -> PyInt(j.int)
      [] j.json = "null" -> PyNone
      [] j.json = "array" -> PyList([i \in DOMAIN j.elems |-> JsonDecode(j.elems[i])])
      [] j.json = "object" ->
            PyDict([k \in {PyStr(n) : n \in DOMAIN j.members} |->
                       JsonDecode(j.members[k.str])])

\* isinstance(v, (str, int, float, bool, list, dict))
IsSavedType(v) == v.type \in {"str", "int", "float", "bool", "list", "dict"}

\* The dict save_all builds: per tab, the entries whose value passes the
\* isinstance test.
save_data(ts) ==
    [tab \in DOMAIN ts |->
        [k \in {x \in DOMAIN ts[tab] : IsSavedType(ts[tab][x])} |-> ts[tab][k]]]

\* json.dump(data, f, indent=2) on the file just opened with "w": the whole
\* text, or TypeError with the file left holding the text written so far.
DumpRaises(data) ==
    \E tab \in DOMAIN data : \E k \in DOMAIN data[tab] : ~JsonSerializable(data[tab][k])

json_dump(data) ==
    IF DumpRaises(data)
    THEN [kind |-> "partial"]
    ELSE [kind |-> "json",
          data |-> [tab \in DOMAIN data |->
                       [k \in DOMAIN data[tab] |-> JsonEncode(data[tab][k])]]]

\* json.load(f) of a complete text.
json_load(f) ==
    [tab \in DOMAIN f.data |-> [k \in DOMAIN f.data[tab] |-> JsonDecode(f.data[tab][k])]]

(***************************************************************************)
(* The state machine.                                                      *)
(***************************************************************************)
\* st.session_state of a session that has run nothing yet.
FreshSession == [n \in {} |-> EmptyDict]

Init ==
    /\ session_state = FreshSession
    /\ handles = {}
    /\ file = [kind |-> "absent"]
    /\ last = Call("start", "", PyNone, NoError)
    /\ stored_values \in ValueUniverses

\* The session ends and a new one starts: st.session_state is empty again,
\* the handles of the old script run are gone, the file stays.
NewSession ==
    /\ session_state' = FreshSession
    /\ handles' = {}
    /\ last' = Call("new_session", "", PyNone, NoError)
    /\ UNCHANGED <<file, stored_values>>

\* A constructor that binds the tab to {} whether or not it exists.
construct_state_emptying(ss, tab_name) ==
    LET ss1 == IF "tabs_state" \notin DOMAIN ss
               THEN DictSet(ss, "tabs_state", EmptyDict) ELSE ss
    IN DictSet(ss1, "tabs_state", DictSet(ss1["tabs_state"], tab_name, EmptyDict))

\* StateManager(tab_name)
construct_state(ss, tab_name) ==
    LET ss1 == IF "tabs_state" \notin DOMAIN ss
               THEN DictSet(ss, "tabs_state", EmptyDict) ELSE ss
        ts == ss1["tabs_state"]
    IN IF tab_name \notin DOMAIN ts
       THEN DictSet(ss1, "tabs_state", DictSet(ts, tab_name, EmptyDict))
       ELSE ss1

Construct(tab_name) ==
    /\ session_state' = construct_state(session_state, tab_name)
    /\ handles' = handles \cup {tab_name}
    /\ last' = Call("__init__", tab_name, PyNone, NoError)
    /\ UNCHANGED <<file, stored_values>>

\* A handle method's write: the new tabs_state, or KeyError when the lookup
\* st.session_state["tabs_state"][self.tab_name] fails (nothing written).
Write(op, raises, new_ts) ==
    /\ ~raises => Size(new_ts) <= MaxEntries
    /\ session_state' =
          IF raises THEN session_state ELSE DictSet(session_state, "tabs_state", new_ts)
    /\ last' = Call(op, "", PyNone, IF raises THEN "KeyError" ELSE NoError)
    /\ UNCHANGED <<handles, file, stored_values>>

\* state.init(defaults)
init_dict(d, defaults) ==
    [k \in DOMAIN d \cup DOMAIN defaults |-> IF k \in DOMAIN d THEN d[k] ELSE defaults[k]]

init(tab, defaults) ==
    LET raises == tab \notin DOMAIN tabs_state /\ DOMAIN defaults # {}
    IN Write("init", raises,
             IF tab \in DOMAIN tabs_state
             THEN DictSet(tabs_state, tab, init_dict(tabs_state[tab], defaults))
             ELSE tabs_state)

\* state.get(key, default), on the session state ss
get_call(ss, tab, key, default) ==
    IF tab \in DOMAIN ss["tabs_state"]
    THEN Call("get", "", DictGet(ss["tabs_state"][tab], key, default), NoError)
    ELSE Call("get", "", PyNone, "KeyError")

get(tab, key, default) ==
    /\ last' = get_call(session_state, tab, key, default)
    /\ UNCHANGED <<session_state, handles, file, stored_values>>

\* state.set(key, value)
set(tab, key, value) ==
    Write("set", tab \notin DOMAIN tabs_state,
          IF tab \in DOMAIN tabs_state
          THEN DictSet(tabs_state, tab, DictSet(tabs_state[tab], key, value))
          ELSE tabs_state)

\* state.reset(keys)
reset(tab, keys) ==
    IF Truthy(keys)
    THEN Write("reset", tab \notin DOMAIN tabs_state,
               IF tab \in DOMAIN tabs_state
               THEN DictSet(tabs_state, tab, DictPopAll(tabs_state[tab], Elems(keys)))
               ELSE tabs_state)
    ELSE Write("reset", FALSE, DictSet(tabs_state, tab, EmptyDict))

\* state.get_all(), on the session state ss; the outcome records the tab
\* whose dict was copied.
get_all_call(ss, tab) ==
    IF tab \in DOMAIN ss["tabs_state"]
    THEN Call("get_all", tab, AsPyDict(ss["tabs_state"][tab]), NoError)
    ELSE Call("get_all", tab, PyNone, "KeyError")

get_all(tab) ==
    /\ last' = get_all_call(session_state, tab)
    /\ UNCHANGED <<session_state, handles, file, stored_values>>

\* A get_from_tab that looks the tab up with setdefault, creating it.
get_from_tab_setdefault(tab, tab_name, key, default) ==
    /\ last' = Call("get_from_tab", tab_name,
                    DictGet(DictGet(tabs_state, tab_name, EmptyDict), key, default), NoError)
    /\ session_state' = construct_state(session_state, tab_name)
    /\ UNCHANGED <<handles, file, stored_values>>

\* state.get_from_tab(tab_name, key, default)
get_from_tab(tab, tab_name, key, default) ==
    /\ last' = Call("get_from_tab", tab_name,
                    DictGet(DictGet(tabs_state, tab_name, EmptyDict), key, default), NoError)
    /\ UNCHANGED <<session_state, handles, file, stored_values>>

\* state.copy_from_tab(source_tab, keys)
copy_from_tab(tab, source_tab, keys) ==
    LET source_state == DictGet(tabs_state, source_tab, EmptyDict)
        copied == IF Truthy(keys) THEN Elems(keys) \cap DOMAIN source_state
                  ELSE DOMAIN source_state
        raises == /\ tab \notin DOMAIN tabs_state
                  /\ (Truthy(keys) => copied # {})
    IN Write("copy_from_tab", raises,
             IF tab \in DOMAIN tabs_state
             THEN DictSet(tabs_state, tab,
                          DictUpdate(tabs_state[tab], [k \in copied |-> source_state[k]]))
             ELSE tabs_state)

\* A save_all that drops from the live store the entries it does not write.
save_all_pruning ==
    LET data == save_data(DictGet(session_state, "tabs_state", EmptyDict))
    IN /\ file' = json_dump(data)
       /\ last' = Call("save_all", "", PyNone,
                       IF DumpRaises(data) THEN "TypeError" ELSE NoError)
       /\ session_state' = DictSet(session_state, "tabs_state", data)
       /\ UNCHANGED <<handles, stored_values>>

\* StateManager.save_all()
save_all ==
    LET data == save_data(DictGet(session_state, "tabs_state", EmptyDict))
    IN /\ file' = json_dump(data)
       /\ last' = Call("save_all", "", PyNone,
                       IF DumpRaises(data) THEN "TypeError" ELSE NoError)
       /\ UNCHANGED <<session_state, handles, stored_values>>

\* StateManager.load_all(): the session state it leaves and what it raises,
\* given the file f.
load_all_state(ss, f) ==
    IF f.kind = "json" THEN DictSet(ss, "tabs_state", json_load(f)) ELSE ss

load_all_error(f) == IF f.kind = "partial" THEN "JSONDecodeError" ELSE NoError

load_all ==
    /\ session_state' = load_all_state(session_state, file)
    /\ last' = Call("load_all", "", PyNone, load_all_error(file))
    /\ UNCHANGED <<handles, file, stored_values>>

\* The dicts of defaults handed to init.
DefaultsArgs == UNION {[S -> stored_values \cap DefaultValues] : S \in SUBSET Keys}

Next ==
    \/ NewSession
    \/ \E t \in Tabs : Construct(t)
    \/ \E h \in handles : \E defaults \in DefaultsArgs : init(h, defaults)
    \/ \E h \in handles : \E k \in Keys : \E d \in Defaults : get(h, k, d)
    \/ \E h \in handles : \E k \in Keys : \E v \in stored_values : set(h, k, v)
    \/ \E h \in handles : \E keys \in KeysArgs : reset(h, keys)
    \/ \E h \in handles : get_all(h)
    \/ \E h \in handles : \E t \in Tabs : \E k \in Keys : \E d \in Defaults :
          get_from_tab(h, t, k, d)
    \/ \E h \in handles : \E t \in Tabs : \E keys \in KeysArgs : copy_from_tab(h, t, keys)
    \/ save_all
    \/ load_all

Spec == Init /\ [][Next]_vars

(***************************************************************************)
(* The caller of get_all and the mapping it was handed.  get_all returns   *)
(* dict(d): a new dict whose values are the very objects the tab binds.    *)
(* The steps below are the caller's, taken on the mapping get_all has just *)
(* returned (last.ret), before any other call.                             *)
(***************************************************************************)
\* A list or dict: an object that can be changed in place.
IsMutable(v) == v.type \in {"list", "dict"}

\* The value of a list or dict after .clear()
cleared(v) == IF v.type = "list" THEN PyList(<<>>) ELSE PyDict(EmptyDict)

\* The (tab, key) pairs bound in tabs_state.
Entries(ts) == UNION {{<<t, k>> : k \in DOMAIN ts[t]} : t \in DOMAIN ts}

\* get_all has just returned a mapping.
HoldsCopy == last.op = "get_all" /\ last.err = NoError

\* all_state[key] = value
copy_setitem(key, value) ==
    /\ HoldsCopy
    /\ last' = Call("copy_setitem", last.tab_name,
                    PyDict(DictSet(last.ret.map, PyStr(key), value)), NoError)
    /\ UNCHANGED <<session_state, handles, file, stored_values>>

\* del all_state[key]
copy_delitem(key) ==
    /\ HoldsCopy
    /\ PyStr(key) \in DOMAIN last.ret.map
    /\ last' = Call("copy_delitem", last.tab_name,
                    PyDict(DictPopAll(last.ret.map, {PyStr(key)})), NoError)
    /\ UNCHANGED <<session_state, handles, file, stored_values>>

\* all_state[key].clear(): the object is changed, and with it every place
\* that binds this object.  The tab's own entry binds it (the copy is
\* shallow).  Other entries with an equal value may bind it too
\* (copy_from_tab binds the source's objects, a caller may set one object
\* twice); the state does not record which, so `aliases` is any set of them.
copy_value_clear(key, aliases) ==
    /\ HoldsCopy
    /\ PyStr(key) \in DOMAIN last.ret.map
    /\ IsMutable(last.ret.map[PyStr(key)])
    /\ LET tab == last.tab_name
           obj == last.ret.map[PyStr(key)]
           bound == {<<tab, key>>} \cup aliases
       IN /\ aliases \subseteq {e \in Entries(tabs_state) : tabs_state[e[1]][e[2]] = obj}
          /\ session_state' =
                DictSet(session_state, "tabs_state",
                        [t \in DOMAIN tabs_state |->
                            [k \in DOMAIN tabs_state[t] |->
                                IF <<t, k>> \in bound THEN cleared(obj)
                                ELSE tabs_state[t][k]]])
          /\ last' = Call("copy_value_clear", tab,
                          PyDict([x \in DOMAIN last.ret.map |->
                                     IF <<tab, x.str>> \in bound THEN cleared(obj)
                                     ELSE last.ret.map[x]]),
                          NoError)
    /\ UNCHANGED <<handles, file, stored_values>>

\* One session of handle calls, nothing saved or loaded, with the caller's
\* steps on the mapping.
NextCopy ==
    \/ \E t \in Tabs : Construct(t)
    \/ \E h \in handles : \E defaults \in DefaultsArgs : init(h, defaults)
    \/ \E h \in handles : \E k \in Keys : \E d \in Defaults : get(h, k, d)
    \/ \E h \in handles : \E k \in Keys : \E v \in stored_values : set(h, k, v)
    \/ \E h \in handles : \E keys \in KeysArgs : reset(h, keys)
    \/ \E h \in handles : get_all(h)
    \/ \E h \in handles : \E t \in Tabs : \E keys \in KeysArgs : copy_from_tab(h, t, keys)
    \/ \E k \in Keys : \E v \in stored_values : copy_setitem(k, v)
    \/ \E k \in Keys : copy_delitem(k)
    \/ \E k \in Keys : \E aliases \in SUBSET (Tabs \X Keys) : copy_value_clear(k, aliases)

SpecCopy == Init /\ [][NextCopy]_vars

(***************************************************************************)
(* The claims.                                                             *)
(***************************************************************************)
\* The entries of a tab in the session state ss: none when the tab (or
\* tabs_state) does not exist.
BoundEntries(ss, tab) ==
    IF "tabs_state" \in DOMAIN ss /\ tab \in DOMAIN ss["tabs_state"]
    THEN ss["tabs_state"][tab]
    ELSE EmptyDict

\* The tabs that exist in the session state ss.
Namespaces(ss) == IF "tabs_state" \in DOMAIN ss THEN DOMAIN ss["tabs_state"] ELSE {}

\* The methods called on a handle that read or write its own tab.
HandleMethods == {"init", "get", "set", "reset", "get_all", "copy_from_tab"}

\* A value built only from strings, numbers, booleans, ordered sequences
\* and mappings of the same.
RECURSIVE Representable(_)
Representable(v) ==
    CASE v.type \in {"str", "int", "float", "bool"} -> TRUE
      [] v.type \in {"list", "tuple"} ->
            \A i \in DOMAIN v.elems : Representable(v.elems[i])
      [] v.type = "dict" ->
            \A k \in DOMAIN v.map : Representable(k) /\ Representable(v.map[k])
      [] OTHER -> FALSE

\* C1: every call of init, get, set, reset, get_all or copy_from_tab on a
\* constructed handle completes without an error, and get returns the stored
\* value when the key is present in the handle's tab and the default
\* otherwise.
C1_HandleCallsNeverFail ==
    [][ /\ last'.op \in HandleMethods => last'.err = NoError
        /\ last'.op = "get" =>
              \A h \in handles : \A k \in Keys : \A d \in Defaults :
                 get(h, k, d) =>
                    last'.ret = DictGet(BoundEntries(session_state, h), k, d) ]_vars

\* C2: every tab a handle was constructed for in this session is still a key
\* of tabs_state.
C2_NamespacesPersist ==
    \A t \in handles : t \in Namespaces(session_state)

\* C3: init(defaults) keeps the value of every key already present in the
\* handle's tab, sets every absent key of defaults to its default and
\* changes no other key.
C3_InitKeepsAndFills ==
    [][ last'.op = "init" =>
        \A h \in handles : \A defaults \in DefaultsArgs :
           init(h, defaults) =>
              LET before == BoundEntries(session_state, h)
                  after == BoundEntries(session_state', h)
              IN /\ DOMAIN after = DOMAIN before \cup DOMAIN defaults
                 /\ \A k \in DOMAIN before : after[k] = before[k]
                 /\ \A k \in DOMAIN defaults \ DOMAIN before : after[k] = defaults[k] ]_vars

\* C4: after set(K, V) through a handle of tab N, get(K) through any handle of
\* tab N returns V.
C4_SetThenGet ==
    [][ last'.op = "set" =>
        \A h \in handles : \A k \in Keys : \A v \in stored_values :
           set(h, k, v) =>
              \A d \in Defaults :
                 get_call(session_state', h, k, d) = Call("get", "", v, NoError) ]_vars

\* C5: reset(keys) with a list of keys (the empty list included) removes
\* exactly the listed keys that are present and leaves the tab's other
\* entries as they were; the tab is emptied only when keys is omitted.
C5_ResetRemovesListed ==
    [][ last'.op = "reset" =>
        \A h \in handles : \A keys \in KeysArgs :
           reset(h, keys) =>
              BoundEntries(session_state', h) =
                 IF keys.type = "list"
                 THEN DictPopAll(BoundEntries(session_state, h), Elems(keys))
                 ELSE EmptyDict ]_vars

\* C6: copy_from_tab(source, keys) with a list of keys (the empty list
\* included) copies exactly the listed keys present in source, with keys
\* omitted every entry of source; other keys of the handle's tab stay, the
\* source's entries stay, and a source that does not exist is not created.
C6_CopyCopiesListed ==
    [][ last'.op = "copy_from_tab" =>
        \A h \in handles : \A src \in Tabs : \A keys \in KeysArgs :
           copy_from_tab(h, src, keys) =>
              LET source == BoundEntries(session_state, src)
                  wanted == IF keys.type = "list"
                            THEN Elems(keys) \cap DOMAIN source
                            ELSE DOMAIN source
              IN /\ BoundEntries(session_state', h) =
                       DictUpdate(BoundEntries(session_state, h),
                                  [k \in wanted |-> source[k]])
                 /\ BoundEntries(session_state', src) = source
                 /\ src \notin Namespaces(session_state) =>
                       src \notin Namespaces(session_state') ]_vars

\* C7: get_from_tab(tab_name, key, default) leaves the session state as it
\* was, a tab that does not exist included, and returns the value of key in
\* that tab when both exist and default otherwise.
C7_GetFromTabReadsOnly ==
    [][ last'.op = "get_from_tab" =>
        \A h \in handles : \A t \in Tabs : \A k \in Keys : \A d \in Defaults :
           get_from_tab(h, t, k, d) =>
              /\ session_state' = session_state
              /\ Namespaces(session_state') = Namespaces(session_state)
              /\ last'.err = NoError
              /\ last'.ret =
                    IF t \in Namespaces(session_state)
                       /\ k \in DOMAIN session_state["tabs_state"][t]
                    THEN session_state["tabs_state"][t][k]
                    ELSE d ]_vars

\* A get_from_tab of a tab that does not exist has returned the default and
\* the tab still does not exist.
C7_Witness ==
    /\ last.op = "get_from_tab"
    /\ last.tab_name \notin Namespaces(session_state)
    /\ Namespaces(session_state) # {}
    /\ last.ret \in Defaults
    /\ last.err = NoError

\* C8: save_all completes without an error and writes a snapshot holding,
\* per tab, exactly the entries whose values are representable.
C8_SaveWritesRepresentable ==
    [][ save_all =>
           LET ts == DictGet(session_state, "tabs_state", EmptyDict)
           IN /\ last'.err = NoError
              /\ file'.kind = "json"
              /\ DOMAIN file'.data = DOMAIN ts
              /\ \A tab \in DOMAIN ts :
                    DOMAIN file'.data[tab] =
                       {k \in DOMAIN ts[tab] : Representable(ts[tab][k])} ]_vars

\* C9: the store load_all yields in a fresh session from the file save_all
\* wrote holds every tab that had a representable entry, every representable
\* entry with an equal value, and no entry the saved store did not hold.
C9_RoundTrip ==
    [][ save_all =>
           LET ts == DictGet(session_state, "tabs_state", EmptyDict)
               after == load_all_state(FreshSession, file')
           IN /\ load_all_error(file') = NoError
              /\ \A tab \in DOMAIN ts : \A k \in DOMAIN ts[tab] :
                    Representable(ts[tab][k]) =>
                       /\ tab \in Namespaces(after)
                       /\ k \in DOMAIN BoundEntries(after, tab)
                       /\ BoundEntries(after, tab)[k] = ts[tab][k]
              /\ \A tab \in Namespaces(after) : \A k \in DOMAIN BoundEntries(after, tab) :
                    /\ tab \in DOMAIN ts
                    /\ k \in DOMAIN ts[tab]
                    /\ BoundEntries(after, tab)[k] = ts[tab][k] ]_vars

\* C10: load_all with the file present replaces tabs_state by the file's
\* content, whatever it held before; with the file absent it leaves the
\* session state as it was; it raises no error.
C10_LoadReplaces ==
    [][ load_all =>
           /\ last'.err = NoError
           /\ file.kind = "absent" => session_state' = session_state
           /\ file.kind # "absent" =>
                 /\ file.kind = "json"
                 /\ Namespaces(session_state') = DOMAIN file.data
                 /\ \A tab \in DOMAIN file.data :
                       /\ DOMAIN BoundEntries(session_state', tab) = DOMAIN file.data[tab]
                       /\ \A k \in DOMAIN file.data[tab] :
                             BoundEntries(session_state', tab)[k] =
                                JsonDecode(file.data[tab][k]) ]_vars

(***************************************************************************)
(* What the code does keep of the claims it breaks: each statement below   *)
(* is the claim with the case of the defect left out, and holds.           *)
(***************************************************************************)
\* C1, while every handle's tab exists: no handle method raises.
C1_WhileTabsExist ==
    [][ (last'.op \in HandleMethods /\ handles \subseteq Namespaces(session_state)) =>
           last'.err = NoError ]_vars

\* C3, on a handle whose tab exists.
C3_WhenTabExists ==
    [][ last'.op = "init" =>
        \A h \in handles : \A defaults \in DefaultsArgs :
           (init(h, defaults) /\ h \in Namespaces(session_state)) =>
              LET before == BoundEntries(session_state, h)
                  after == BoundEntries(session_state', h)
              IN /\ DOMAIN after = DOMAIN before \cup DOMAIN defaults
                 /\ \A k \in DOMAIN before : after[k] = before[k]
                 /\ \A k \in DOMAIN defaults \ DOMAIN before : after[k] = defaults[k] ]_vars

\* C4, on a handle whose tab exists.
C4_WhenTabExists ==
    [][ last'.op = "set" =>
        \A h \in handles : \A k \in Keys : \A v \in stored_values :
           (set(h, k, v) /\ h \in Namespaces(session_state)) =>
              \A d \in Defaults :
                 get_call(session_state', h, k, d) = Call("get", "", v, NoError) ]_vars

\* C5, for keys omitted or a list that is not empty.
C5_ExceptEmptyList ==
    [][ last'.op = "reset" =>
        \A h \in handles : \A keys \in KeysArgs \ {PyList(<<>>)} :
           reset(h, keys) =>
              BoundEntries(session_state', h) =
                 IF keys.type = "list"
                 THEN DictPopAll(BoundEntries(session_state, h), Elems(keys))
                 ELSE EmptyDict ]_vars

\* C6, for keys omitted or a list that is not empty, on a handle whose tab
\* exists.
C6_ExceptEmptyList ==
    [][ last'.op = "copy_from_tab" =>
        \A h \in handles : \A src \in Tabs : \A keys \in KeysArgs \ {PyList(<<>>)} :
           (copy_from_tab(h, src, keys) /\ h \in Namespaces(session_state)) =>
              LET source == BoundEntries(session_state, src)
                  wanted == IF keys.type = "list"
                            THEN Elems(keys) \cap DOMAIN source
                            ELSE DOMAIN source
              IN /\ BoundEntries(session_state', h) =
                       DictUpdate(BoundEntries(session_state, h),
                                  [k \in wanted |-> source[k]])
                 /\ BoundEntries(session_state', src) = source
                 /\ src \notin Namespaces(session_state) =>
                       src \notin Namespaces(session_state') ]_vars

\* Every value of the store passes or fails the isinstance test as a whole:
\* none holds an object nested in a list or dict.
NoNestedObject(ts) ==
    \A tab \in DOMAIN ts : \A k \in DOMAIN ts[tab] :
       IsSavedType(ts[tab][k]) => JsonSerializable(ts[tab][k])

\* C8, for a store without nested objects.
C8_WithoutNestedObjects ==
    [][ (last'.op = "save_all" /\ save_all
            /\ NoNestedObject(DictGet(session_state, "tabs_state", EmptyDict))) =>
           LET ts == DictGet(session_state, "tabs_state", EmptyDict)
           IN /\ last'.err = NoError
              /\ file'.kind = "json"
              /\ DOMAIN file'.data = DOMAIN ts
              /\ \A tab \in DOMAIN ts :
                    DOMAIN file'.data[tab] =
                       {k \in DOMAIN ts[tab] : Representable(ts[tab][k])} ]_vars

\* C9, for a store whose values are strings and objects only.
C9_PlainValues ==
    [][ (last'.op = "save_all" /\ save_all
            /\ LET ts == DictGet(session_state, "tabs_state", EmptyDict)
               IN \A tab \in DOMAIN ts : \A k \in DOMAIN ts[tab] :
                     ts[tab][k].type \in {"str", "object"}) =>
           LET ts == DictGet(session_state, "tabs_state", EmptyDict)
               after == load_all_state(FreshSession, file')
           IN /\ load_all_error(file') = NoError
              /\ \A tab \in DOMAIN ts : \A k \in DOMAIN ts[tab] :
                    Representable(ts[tab][k]) =>
                       /\ tab \in Namespaces(after)
                       /\ k \in DOMAIN BoundEntries(after, tab)
                       /\ BoundEntries(after, tab)[k] = ts[tab][k]
              /\ \A tab \in Namespaces(after) : \A k \in DOMAIN BoundEntries(after, tab) :
                    /\ tab \in DOMAIN ts
                    /\ k \in DOMAIN ts[tab]
                    /\ BoundEntries(after, tab)[k] = ts[tab][k] ]_vars

\* C10, for a file that is absent or complete.
C10_CompleteFile ==
    [][ (last'.op = "load_all" /\ load_all /\ file.kind # "partial") =>
           /\ last'.err = NoError
           /\ file.kind = "absent" => session_state' = session_state
           /\ file.kind # "absent" =>
                 /\ Namespaces(session_state') = DOMAIN file.data
                 /\ \A tab \in DOMAIN file.data :
                       /\ DOMAIN BoundEntries(session_state', tab) = DOMAIN file.data[tab]
                       /\ \A k \in DOMAIN file.data[tab] :
                             BoundEntries(session_state', tab)[k] =
                                JsonDecode(file.data[tab][k]) ]_vars

(***************************************************************************)
(* The mapping get_all returns (checked under SpecCopy).                   *)
(***************************************************************************)
\* The steps a caller takes on the mapping get_all returned.
CopyMutations == {"copy_setitem", "copy_delitem", "copy_value_clear"}

\* C11: no mutation of the mapping get_all returned (adding, removing or
\* rebinding a key, or changing a list or dict value in place through it)
\* changes what a later get or get_all on the store returns.
C11_CopyIsIndependent ==
    [][ last'.op \in CopyMutations =>
           \A h \in Tabs :
              /\ get_all_call(session_state', h) = get_all_call(session_state, h)
              /\ \A k \in Keys : \A d \in Defaults :
                    get_call(session_state', h, k, d) = get_call(session_state, h, k, d) ]_vars

\* C11, for adding, removing and rebinding keys of the returned mapping:
\* the store is not changed.
C11_KeysOfCopy ==
    [][ last'.op \in {"copy_setitem", "copy_delitem"} =>
           session_state' = session_state ]_vars

(***************************************************************************)
(* The constructor, isolation of the tabs, and save_all's frame.           *)
(***************************************************************************)
\* C12: StateManager(tab_name) never fails; for a tab that exists it leaves
\* the whole session state as it was (the tab's entries are kept); for a tab
\* that does not exist it adds the tab with an empty dict and changes
\* nothing else; constructing again changes nothing.
C12_ConstructIdempotent ==
    [][ last'.op = "__init__" =>
        \A t \in Tabs :
           Construct(t) =>
              /\ last'.err = NoError
              /\ t \in Namespaces(session_state) => session_state' = session_state
              /\ t \notin Namespaces(session_state) =>
                    /\ Namespaces(session_state') = Namespaces(session_state) \cup {t}
                    /\ BoundEntries(session_state', t) = EmptyDict
                    /\ \A o \in Namespaces(session_state) :
                          BoundEntries(session_state', o) = BoundEntries(session_state, o)
              /\ construct_state(session_state', t) = session_state' ]_vars

\* A handle has just been constructed for a tab that held entries, and the
\* entries are still there.
C12_Witness ==
    /\ last.op = "__init__"
    /\ last.err = NoError
    /\ last.tab_name \in Namespaces(session_state)
    /\ DOMAIN BoundEntries(session_state, last.tab_name) # {}

\* The step changed no tab but h's and left the set of tabs as it was.
OnlyOwnTabChanged(h) ==
    /\ Namespaces(session_state') = Namespaces(session_state)
    /\ \A o \in Namespaces(session_state) \ {h} :
          BoundEntries(session_state', o) = BoundEntries(session_state, o)

\* C13: init, set, reset (with or without keys) and copy_from_tab through a
\* handle of tab N change only the entries of N: every step leaves the
\* entries of every other tab, and the set of tabs, as they were.
C13_Isolation ==
    [][ /\ last'.op = "init" =>
              \A h \in handles : \A defaults \in DefaultsArgs :
                 init(h, defaults) => OnlyOwnTabChanged(h)
        /\ last'.op = "set" =>
              \A h \in handles : \A k \in Keys : \A v \in stored_values :
                 set(h, k, v) => OnlyOwnTabChanged(h)
        /\ last'.op = "reset" =>
              \A h \in handles : \A keys \in KeysArgs :
                 reset(h, keys) => OnlyOwnTabChanged(h)
        /\ last'.op = "copy_from_tab" =>
              \A h \in handles : \A src \in Tabs : \A keys \in KeysArgs :
                 copy_from_tab(h, src, keys) => OnlyOwnTabChanged(h) ]_vars

\* C13, through handles whose tab exists.
C13_WhenTabExists ==
    [][ /\ last'.op = "init" =>
              \A h \in handles \cap Namespaces(session_state) : \A defaults \in DefaultsArgs :
                 init(h, defaults) => OnlyOwnTabChanged(h)
        /\ last'.op = "set" =>
              \A h \in handles \cap Namespaces(session_state) :
                 \A k \in Keys : \A v \in stored_values :
                    set(h, k, v) => OnlyOwnTabChanged(h)
        /\ last'.op = "reset" =>
              \A h \in handles \cap Namespaces(session_state) : \A keys \in KeysArgs :
                 reset(h, keys) => OnlyOwnTabChanged(h)
        /\ last'.op = "copy_from_tab" =>
              \A h \in handles \cap Namespaces(session_state) :
                 \A src \in Tabs : \A keys \in KeysArgs :
                    copy_from_tab(h, src, keys) => OnlyOwnTabChanged(h) ]_vars

\* C14: save_all leaves the live session state as it was: every tab and
\* every entry, those it does not write included, is still there with the
\* same value, whether or not the dump raised.
C14_SaveLeavesStore ==
    [][ last'.op = "save_all" =>
           (save_all =>
              /\ session_state' = session_state
              /\ Namespaces(session_state') = Namespaces(session_state)
              /\ \A t \in Namespaces(session_state) :
                    BoundEntries(session_state', t) = BoundEntries(session_state, t)) ]_vars

\* save_all has just written a file that leaves out an entry the store
\* still holds.
C14_Witness ==
    /\ last.op = "save_all"
    /\ last.err = NoError
    /\ file.kind = "json"
    /\ \E t \in Namespaces(session_state) : \E k \in DOMAIN BoundEntries(session_state, t) :
          /\ ~Representable(BoundEntries(session_state, t)[k])
          /\ t \in DOMAIN file.data
          /\ k \notin DOMAIN file.data[t]
====
